---- MODULE Spec2Model ----
(***************************************************************************)
(* Model of the text normalizer (clean_text), of the embedding pipeline   *)
(* (create_embedding) and of the fetch operations of the record store of   *)
(* ai-difficulty-classifier.                                               *)
(*                                                                         *)
(* A text is a sequence of characters.  A character is a string naming one *)
(* Unicode code point; CodePoint gives its number, so that the character   *)
(* classes of the regular expressions are decided as the regex engine      *)
(* decides them.  A Python value is a record tagged with its type: None,   *)
(* Str(chars), PyInt(n), Vector(len).                                        *)
(***************************************************************************)
EXTENDS Integers, Sequences, FiniteSets, TLC

None == [py |-> "NoneType"]
Str(chars) == [py |-> "str", s |-> chars]
PyInt(n) == [py |-> "int", n |-> n]
\* a list of len floats, as the embeddings endpoint returns it
Vector(len) == [py |-> "list", len |-> len]

PyBool(b) == [py |-> "bool", b |-> b]
PyFloat(repr) == [py |-> "float", repr |-> repr]
\* a str whose characters the model does not look at
StrLit(name) == [py |-> "str", lit |-> name]
\* a raised exception, as the outcome of a call
Raise(type) == [py |-> "raise", type |-> type]

Raised(v) == v.py = "raise"

\* the truth value of a Python value: "not v" is ~Truthy(v)
Truthy(v) ==
    CASE v.py = "NoneType" -> FALSE
      [] v.py = "str"      -> v.s # <<>>
      [] v.py = "int"      -> v.n # 0
      [] v.py = "list"     -> v.len # 0

-----------------------------------------------------------------------------
(* Bounds of the model *)

MaxLen == 4          \* longest input text of the normalizer specification
MaxRecords == 3      \* longest batch handed to create_embedding
MaxTokenCount == 1   \* largest token count the tokenizer reports for a text
CapSlack == 2        \* surviving-token counts range over MaxTokens -+ CapSlack
MaxRows == 3         \* most rows in the response to one fetch query

-----------------------------------------------------------------------------
(* Characters *)

CodePoint(c) ==
    CASE c = " "          -> 32
      [] c = "dquote"     -> 34
      [] c = "$"          -> 36
      [] c = "-"          -> 45
      [] c = "1"          -> 49
      [] c = "D"          -> 68
      [] c = "E"          -> 69
      [] c = "["          -> 91
      [] c = "]"          -> 93
      [] c = "backtick"   -> 96
      [] c = "d"          -> 100
      [] c = "e"          -> 101
      [] c = "E_acute"    -> 201
      [] c = "e_acute"    -> 233
      [] c = "comb_acute" -> 769
      [] c = "jamo_g"     -> 4352
      [] c = "jamo_a"     -> 4449
      [] c = "en_dash"    -> 8211
      [] c = "euro"       -> 8364
      [] c = "hangul_ga"  -> 44032

\* str.isdigit on one character
IsDigitChar(c) == c = "1"

\* \w of the re module on str patterns: alphanumeric or underscore.  A
\* combining mark (category Mn) is not alphanumeric.
IsWordChar(c) ==
    c \in {"1", "D", "E", "d", "e", "E_acute", "e_acute",
           "jamo_g", "jamo_a", "hangul_ga"}

\* \s of the re module, and the separator of str.split() and str.strip()
IsSpace(c) == c = " "

\* the punctuation class of steps 4 and 8: . , ; : ! ? inverted-! inverted-? apostrophe dquote -
ClosingPunct == {46, 44, 59, 58, 33, 63, 161, 191, 39, 34, 45}

\* the class of step 5: inverted-! inverted-? apostrophe dquote -
OpeningPunct == {161, 191, 39, 34, 45}

\* The complement of the negated class of step 2: the characters that are
\* kept.  The class lists \w, \s, nine punctuation marks, then dquote-hyphen-
\* a_acute, which the regex engine reads as the range from the double quote
\* (34) to a-acute (225), then thirteen accented letters.
Allowed(c) ==
    \/ IsWordChar(c)
    \/ IsSpace(c)
    \/ CodePoint(c) \in {46, 44, 59, 58, 33, 63, 161, 191, 39}
    \/ CodePoint(c) \in 34..225
    \/ CodePoint(c) \in {233, 237, 243, 250, 252, 241,
                         193, 201, 205, 211, 218, 220, 209}

\* str.lower on one character
LowerChar(c) ==
    CASE c = "D"       -> "d"
      [] c = "E"       -> "e"
      [] c = "E_acute" -> "e_acute"
      [] OTHER         -> c

\* canonical decomposition of one character
Decompose(c) ==
    CASE c = "e_acute"   -> <<"e", "comb_acute">>
      [] c = "E_acute"   -> <<"E", "comb_acute">>
      [] c = "hangul_ga" -> <<"jamo_g", "jamo_a">>
      [] OTHER           -> <<c>>

\* canonical composition of a starter and the character after it; "" when
\* the two do not compose
Compose(a, b) ==
    CASE a = "e" /\ b = "comb_acute"  -> "e_acute"
      [] a = "E" /\ b = "comb_acute"  -> "E_acute"
      [] a = "jamo_g" /\ b = "jamo_a" -> "hangul_ga"
      [] OTHER                        -> ""

-----------------------------------------------------------------------------
(* Sequence helpers *)

Tail2(s) == SubSeq(s, 3, Len(s))

RECURSIVE DropSpaces(_)
\* the text after its leading run of whitespace
DropSpaces(t) ==
    IF t # <<>> /\ IsSpace(Head(t)) THEN DropSpaces(Tail(t)) ELSE t

RECURSIVE DropTrailingSpaces(_)
DropTrailingSpaces(t) ==
    IF t # <<>> /\ IsSpace(t[Len(t)])
    THEN DropTrailingSpaces(SubSeq(t, 1, Len(t) - 1))
    ELSE t

\* str.strip()
Strip(t) == DropTrailingSpaces(DropSpaces(t))

RECURSIVE NFD(_)
\* unicodedata.normalize('NFD', text)
NFD(t) == IF t = <<>> THEN <<>> ELSE Decompose(Head(t)) \o NFD(Tail(t))

RECURSIVE NFC(_)
\* unicodedata.normalize('NFC', text), on decomposed or composed text
NFC(t) ==
    IF Len(t) < 2 THEN t
    ELSE IF Compose(t[1], t[2]) # ""
         THEN <<Compose(t[1], t[2])>> \o NFC(Tail2(t))
         ELSE <<Head(t)>> \o NFC(Tail(t))

\* step 2: re.sub of the character class with ' '
FilterChars(t) == [i \in 1..Len(t) |-> IF Allowed(t[i]) THEN t[i] ELSE " "]

RECURSIVE CollapseRuns(_)
\* re.sub(r'\s+', ' ', text)
CollapseRuns(t) ==
    IF t = <<>> THEN <<>>
    ELSE IF IsSpace(Head(t)) THEN <<" ">> \o CollapseRuns(DropSpaces(t))
         ELSE <<Head(t)>> \o CollapseRuns(Tail(t))

\* steps 3 and 12: re.sub(r'\s+', ' ', text).strip()
CollapseSpaces(t) == Strip(CollapseRuns(t))

RECURSIVE FixBeforePunct(_)
\* step 4: whitespace in front of a punctuation mark is removed
FixBeforePunct(t) ==
    IF t = <<>> THEN <<>>
    ELSE IF /\ IsSpace(Head(t))
            /\ DropSpaces(t) # <<>>
            /\ CodePoint(Head(DropSpaces(t))) \in ClosingPunct
         THEN <<Head(DropSpaces(t))>> \o FixBeforePunct(Tail(DropSpaces(t)))
         ELSE <<Head(t)>> \o FixBeforePunct(Tail(t))

RECURSIVE FixAfterOpening(_)
\* step 5: whitespace behind an opening mark is removed
FixAfterOpening(t) ==
    IF t = <<>> THEN <<>>
    ELSE IF /\ CodePoint(Head(t)) \in OpeningPunct
            /\ Len(t) >= 2
            /\ IsSpace(t[2])
         THEN <<Head(t)>> \o FixAfterOpening(DropSpaces(Tail(t)))
         ELSE <<Head(t)>> \o FixAfterOpening(Tail(t))

\* step 6, first line: the double quote and the backtick (the class that the
\* two concatenated string literals of the source spell) become a double quote
NormalizeQuotes(t) ==
    [i \in 1..Len(t) |-> IF CodePoint(t[i]) \in {34, 96} THEN "dquote" ELSE t[i]]

\* step 6, second line: en dash and em dash replaced by the hyphen-minus
NormalizeDashes(t) ==
    [i \in 1..Len(t) |-> IF CodePoint(t[i]) \in {8211, 8212} THEN "-" ELSE t[i]]

RECURSIVE FirstWord(_)
\* the leading run of non-whitespace characters
FirstWord(t) ==
    IF t = <<>> \/ IsSpace(Head(t)) THEN <<>>
    ELSE <<Head(t)>> \o FirstWord(Tail(t))

RECURSIVE Split(_)
\* str.split(): the whitespace-separated words of the text
Split(t) ==
    IF DropSpaces(t) = <<>> THEN <<>>
    ELSE LET u == DropSpaces(t)
             w == FirstWord(u)
         IN  <<w>> \o Split(SubSeq(u, Len(w) + 1, Len(u)))

RECURSIVE Join(_)
\* ' '.join(words)
Join(ws) ==
    IF ws = <<>> THEN <<>>
    ELSE IF Len(ws) = 1 THEN ws[1]
         ELSE ws[1] \o <<" ">> \o Join(Tail(ws))

\* str.lower()
Lower(w) == [i \in 1..Len(w) |-> LowerChar(w[i])]

\* str.isdigit()
IsDigit(w) == w # <<>> /\ \A i \in 1..Len(w) : IsDigitChar(w[i])

\* re.match of the word against one or more punctuation marks
OnlyPunct(w) == w # <<>> /\ \A i \in 1..Len(w) : CodePoint(w[i]) \in ClosingPunct

-----------------------------------------------------------------------------
(* clean_text *)

MinWordLen == 2
MaxWordLen == 50
MaxTokens == 5000

\* stopwords.words('spanish'): the entries of the NLTK list that the
\* characters of the model can spell, and two that they cannot
SpanishStopwords ==
    {<<"d", "e">>, <<"e">>, <<"l", "a">>, <<"q", "u", "e">>}

\* additional_spanish_stopwords (entries shown: si, no, vez, tan)
AdditionalSpanishStopwords ==
    {<<"s", "i">>, <<"n", "o">>, <<"v", "e", "z">>, <<"t", "a", "n">>}

\* custom_exclude
CustomExclude ==
    {<<"s", "i_acute">>, <<"n", "o">>, <<"v", "a", "l", "e">>}

AllStopwords == SpanishStopwords \cup AdditionalSpanishStopwords \cup CustomExclude

\* steps 1 to 6
NormalizeText(text) ==
    NormalizeDashes(NormalizeQuotes(FixAfterOpening(FixBeforePunct(
        CollapseSpaces(FilterChars(NFD(text)))))))

\* the condition of step 8 on the lowered word
KeepWord(word_lower) ==
    /\ word_lower # <<>>
    /\ word_lower \notin AllStopwords
    /\ Len(word_lower) >= MinWordLen
    /\ ~IsDigit(word_lower)
    /\ ~OnlyPunct(word_lower)
    /\ Len(word_lower) <= MaxWordLen

\* step 8: the lowered words that pass the filter, in order
FilterWords(words) ==
    SelectSeq([i \in 1..Len(words) |-> Strip(Lower(words[i]))], KeepWord)

\* step 9 with the comparison off by one: a list of exactly MaxTokens words
\* loses its last word
CapWords_OffByOne(cleaned_words) ==
    IF Len(cleaned_words) >= MaxTokens
    THEN SubSeq(cleaned_words, 1, MaxTokens - 1)
    ELSE cleaned_words

\* step 9
CapWords(cleaned_words) ==
    IF Len(cleaned_words) > MaxTokens
    THEN SubSeq(cleaned_words, 1, MaxTokens)
    ELSE cleaned_words

\* steps 11 to 13
FinishText(cleaned_words) == NFC(CollapseSpaces(Join(cleaned_words)))

\* str(text) of the input validation; a value that is not a str carries
\* its rendering
PyStr(text) == IF text.py = "str" THEN text.s ELSE text.repr

clean_text(text) ==
    IF ~Truthy(text) THEN Str(<<>>)
    ELSE Str(FinishText(CapWords(FilterWords(Split(NormalizeText(PyStr(text)))))))

-----------------------------------------------------------------------------
(* Question *)

FieldNames ==
    {"id", "question", "answer1", "answer2", "answer3", "answer4", "solution",
     "tip", "topic", "article", "image", "retro_image", "retro_audio",
     "author", "createdAt", "order", "retro_text", "category", "publised",
     "shuffled", "num_answered", "num_fails", "num_empty", "difficult_rate",
     "challenge_by_tutor", "challenge_reason", "createdBy", "vector",
     "llm_model", "difficult_unique_rate", "question_type_id", "law_id",
     "tutor", "embedding_model"}

\* the default arguments of Question.__init__
FieldDefault(f) ==
    CASE f \in {"question", "answer1", "answer2", "answer3", "retro_text"}
             -> Str(<<>>)
      [] f \in {"solution", "topic"} -> PyInt(1)
      [] f = "author" -> PyInt(3)
      [] f \in {"image", "retro_image", "retro_audio", "challenge_by_tutor"}
             -> PyBool(FALSE)
      [] f = "publised" -> PyBool(TRUE)
      [] f = "difficult_unique_rate" -> PyFloat("0.0")
      [] OTHER -> None

\* Question(**kwargs): every attribute is the argument, or its default
Question(kwargs) ==
    [f \in FieldNames |->
        IF f \in DOMAIN kwargs THEN kwargs[f] ELSE FieldDefault(f)]

\* copy_with that forgets to pass tip on: the copy gets the default
copy_with_DropsTip(self, kwargs) ==
    Question([f \in FieldNames \ {"tip"} |->
        IF f \in DOMAIN kwargs THEN kwargs[f] ELSE self[f]])

\* Question.copy_with(**kwargs): kwargs.get(name, self.name) for each field
copy_with(self, kwargs) ==
    Question([f \in FieldNames |->
        IF f \in DOMAIN kwargs THEN kwargs[f] ELSE self[f]])

\* list[i] of Python on a list given as a sequence: a negative index counts
\* from the end, an index outside the list raises IndexError
PyIndex(list, i) ==
    IF i >= 0 /\ i < Len(list) THEN list[i + 1]
    ELSE IF i < 0 /\ i >= -Len(list) THEN list[Len(list) + i + 1]
    ELSE Raise("IndexError")

\* get_text_to_embedding that indexes all four answers
get_text_to_embedding_FourAnswers(self) ==
    IF self.solution.py # "int" THEN Raise("TypeError")
    ELSE LET answer == PyIndex(<<self.answer1, self.answer2, self.answer3,
                                 self.answer4>>, self.solution.n - 1)
         IN  IF Raised(answer) THEN answer
             ELSE IF self.question.py # "str" \/ answer.py # "str"
                  THEN Raise("TypeError")
                  ELSE Str(Strip(Join(<<self.question.s, answer.s>>)))

\* Question.get_text_to_embedding
get_text_to_embedding(self) ==
    IF self.solution.py # "int" THEN Raise("TypeError")
    ELSE LET answer == PyIndex(<<self.answer1, self.answer2, self.answer3>>,
                               self.solution.n - 1)
         IN  IF Raised(answer) THEN answer
             ELSE IF self.question.py # "str" \/ answer.py # "str"
                  THEN Raise("TypeError")
                  ELSE Str(Strip(Join(<<self.question.s, answer.s>>)))

-----------------------------------------------------------------------------
(* Embedding provider *)

\* EmbeddingModel; cost_per_token in units of 0.00001 USD
TEXT_EMBEDDING_3_SMALL ==
    [model_name |-> StrLit("text-embedding-3-small"), cost_per_token |-> 2,
     dimensions |-> 1536]
TEXT_EMBEDDING_3_LARGE ==
    [model_name |-> StrLit("text-embedding-3-large"), cost_per_token |-> 13,
     dimensions |-> 3072]
TEXT_EMBEDDING_ADA_002 ==
    [model_name |-> StrLit("text-embedding-ada-002"), cost_per_token |-> 10,
     dimensions |-> 1536]

EmbeddingModel ==
    {TEXT_EMBEDDING_3_SMALL, TEXT_EMBEDDING_3_LARGE, TEXT_EMBEDDING_ADA_002}

\* What the embeddings endpoint answers to one request: an error, or a
\* response whose data[0].embedding is a list of floats (of the length of
\* one of the models) or is missing.
ApiResponses ==
    {Raise("APIError")} \cup
    {[py |-> "response", embedding |-> e] :
        e \in {Vector(m.dimensions) : m \in EmbeddingModel} \cup {None}}

\* the token counts the tokenizer can report for a non-empty text
TokenCounts == 1..MaxTokenCount

\* OpenAIRepository.__init__ reads the key from the environment: absent,
\* not starting with sk-, or well-formed; then it tests the connection
ApiKeys == {None, StrLit("pk-bad"), StrLit("sk-good")}

\* OpenAIRepository.__init__: None when constructed, else what it raises
OpenAIRepositoryInit(api_key, connection) ==
    IF api_key = None THEN Raise("ValueError")
    ELSE IF api_key # StrLit("sk-good") THEN Raise("ValueError")
    ELSE IF Raised(connection) THEN connection
    ELSE None

\* OpenAIRepository.calculate_embedding_cost
calculate_embedding_cost(token_count, model) ==
    token_count * model.cost_per_token

\* OpenAIRepository.get_embedding
get_embedding(response) ==
    IF Raised(response) THEN response ELSE response.embedding

\* OpenAIRepository.get_embedding_with_cost: the pair, or what it raises
get_embedding_with_cost(response, token_count, model) ==
    IF Raised(get_embedding(response)) THEN get_embedding(response)
    ELSE [py |-> "tuple",
          items |-> <<get_embedding(response),
                      calculate_embedding_cost(token_count, model)>>]

-----------------------------------------------------------------------------
(* State *)

VARIABLES
    nz_pc,       \* normalizer runs: "idle", "input", "once", "twice"
    nz_text,     \* the text handed to clean_text
    nz_once,     \* clean_text(nz_text)
    nz_twice,    \* clean_text(nz_once)
    cap_pc,         \* steps 8 and 9 alone: "idle", "split", "filtered", "capped"
    words,          \* the words step 7 split the text into
    cleaned_words,  \* the list steps 8 and 9 build and step 11 joins
    truncated,      \* whether step 9 printed its warning
    pc,          \* create_embedding: "idle", "start", "loop", "returned", "raised"
    question_list,      \* the argument: a sequence of Questions (or None)
    model,              \* the argument: a member of EmbeddingModel
    open_ai,            \* the provider: "unset", "constructed", "failed"
    idx,                \* enumerate index of the last record taken, 0 at first
    cost,               \* running total, in units of 0.00001 USD
    new_question_list,  \* the records embedded so far
    skipped_questions,  \* the skip counter
    result,             \* what the call returned or raised, None until then
    provider_calls,     \* history: every call of get_embedding_with_cost,
                        \* with the record's position, the text and the outcome
    embedded_from,      \* history: the position in question_list of each
                        \* element of new_question_list
    fetch_pc,        \* a fetch of the record store: "idle", "query", "done"
    fetch_op,        \* the fetch operation that ran, None until then
    db_response,     \* what execute() of the query gave: a response or a raise
    fetch_result     \* what the fetch returned or raised, None until then

nz_vars == <<nz_pc, nz_text, nz_once, nz_twice>>
pipe_vars ==
    <<pc, question_list, model, open_ai, idx, cost, new_question_list,
      skipped_questions, result, provider_calls, embedded_from>>
cap_vars == <<cap_pc, words, cleaned_words, truncated>>
fetch_vars == <<fetch_pc, fetch_op, db_response, fetch_result>>
vars == <<nz_vars, cap_vars, pipe_vars, fetch_vars>>

FetchIdle ==
    /\ fetch_pc = "idle"
    /\ fetch_op = None
    /\ db_response = None
    /\ fetch_result = None

CapIdle ==
    /\ cap_pc = "idle"
    /\ words = <<>>
    /\ cleaned_words = <<>>
    /\ truncated = FALSE

NzIdle ==
    /\ nz_pc = "idle"
    /\ nz_text = None
    /\ nz_once = None
    /\ nz_twice = None

PipeIdle ==
    /\ pc = "idle"
    /\ question_list = <<>>
    /\ model = TEXT_EMBEDDING_3_SMALL
    /\ open_ai = "unset"
    /\ idx = 0
    /\ cost = 0
    /\ new_question_list = <<>>
    /\ skipped_questions = 0
    /\ result = None
    /\ provider_calls = <<>>
    /\ embedded_from = <<>>

-----------------------------------------------------------------------------
(* The normalizer applied to bounded texts *)

\* the characters input texts are made of
Alphabet ==
    {" ", "d", "e", "E", "1", "-", "backtick", "$", "euro", "e_acute",
     "en_dash", "hangul_ga"}

\* the texts of at most MaxLen characters
Texts == UNION {[1..n -> Alphabet] : n \in 0..MaxLen}

\* values that are not a str, with the text str() renders them as: the
\* numbers 0, 11 and -11, the lists [] and [11]
NonStrInputs ==
    {[py |-> "int", n |-> 0, repr |-> <<"0">>],
     [py |-> "int", n |-> 11, repr |-> <<"1", "1">>],
     [py |-> "int", n |-> -11, repr |-> <<"-", "1", "1">>],
     [py |-> "list", len |-> 0, repr |-> <<"[", "]">>],
     [py |-> "list", len |-> 1, repr |-> <<"[", "1", "1", "]">>]}

NzInit ==
    /\ nz_pc = "input"
    /\ nz_text \in {Str(t) : t \in Texts} \cup {None} \cup NonStrInputs
    /\ nz_once = None
    /\ nz_twice = None
    /\ CapIdle
    /\ PipeIdle
    /\ FetchIdle

\* clean_text(text)
CleanOnce ==
    /\ nz_pc = "input"
    /\ nz_once' = clean_text(nz_text)
    /\ nz_pc' = "once"
    /\ UNCHANGED <<nz_text, nz_twice, cap_vars, pipe_vars, fetch_vars>>

\* clean_text applied to its own output
CleanTwice ==
    /\ nz_pc = "once"
    /\ nz_twice' = clean_text(nz_once)
    /\ nz_pc' = "twice"
    /\ UNCHANGED <<nz_text, nz_once, cap_vars, pipe_vars, fetch_vars>>

NzNext == CleanOnce \/ CleanTwice

SpecClean == NzInit /\ [][NzNext]_vars

-----------------------------------------------------------------------------
(* Steps 8 and 9 of clean_text on word lists around the cap of 5000 *)

RECURSIVE Numeral(_, _)
\* the binary numeral of i written with the letter d for 0 and one for 1
Numeral(i, one) ==
    IF i = 0 THEN <<>>
    ELSE Numeral(i \div 2, one) \o <<IF i % 2 = 1 THEN one ELSE "d">>

\* a word that survives the filter and is different for every i; with
\* one = "E" it has capitals
WordNo(i, one) == <<"d", "d">> \o Numeral(i, one)

\* words that the filter drops: a stopword, a number, punctuation, a word
\* of more than 50 characters, a word of one character
Fillers ==
    {<<"d", "e">>, <<"D", "E">>, <<"1", "1">>, <<"-", "-">>,
     [i \in 1..(MaxWordLen + 1) |-> "d"], <<"d">>}

\* the periods at which a filler follows the surviving words; 0 for none
Periods == {0, 1, 3}

\* n surviving words, with a filler after every period of them
WordList(n, one, period, filler) ==
    IF period = 0 THEN [j \in 1..n |-> WordNo(j, one)]
    ELSE [j \in 1..(n + n \div period) |->
             IF j % (period + 1) = 0 THEN filler
             ELSE WordNo(j - j \div (period + 1), one)]

CapInit ==
    /\ cap_pc = "split"
    /\ \E n \in (MaxTokens - CapSlack)..(MaxTokens + CapSlack),
          one \in {"e", "E"}, period \in Periods, filler \in Fillers :
          words = WordList(n, one, period, filler)
    /\ cleaned_words = <<>>
    /\ truncated = FALSE
    /\ NzIdle
    /\ PipeIdle
    /\ FetchIdle

\* step 8, lines 104 to 126
FilterStep ==
    /\ cap_pc = "split"
    /\ cleaned_words' = FilterWords(words)
    /\ cap_pc' = "filtered"
    /\ UNCHANGED <<words, truncated, nz_vars, pipe_vars, fetch_vars>>

\* step 9, lines 131 to 134
CapStep ==
    /\ cap_pc = "filtered"
    /\ cleaned_words' = CapWords(cleaned_words)
    /\ truncated' = (Len(cleaned_words) > MaxTokens)
    /\ cap_pc' = "capped"
    /\ UNCHANGED <<words, nz_vars, pipe_vars, fetch_vars>>

CapNext == FilterStep \/ CapStep

SpecCap == CapInit /\ [][CapNext]_vars

-----------------------------------------------------------------------------
(* The fetch operations of the record store *)

\* a timestamp string that datetime.fromisoformat accepts
IsoTimestamps == {StrLit("2024-05-01T10:00:00Z")}

\* data[new] = data.pop(old), when the row has the column old
RenameKey(data, old, new) ==
    IF old \in DOMAIN data
    THEN [k \in (DOMAIN data \ {old}) \cup {new} |->
             IF k = new THEN data[old] ELSE data[k]]
    ELSE data

\* lines 71 to 75 of from_json: a createdAt that is a str becomes a datetime,
\* or None when the string is not a timestamp
ParseCreatedAt(data) ==
    IF "createdAt" \in DOMAIN data /\ data.createdAt.py = "str"
    THEN [data EXCEPT !.createdAt =
             IF data.createdAt \in IsoTimestamps
             THEN [py |-> "datetime", iso |-> data.createdAt.lit]
             ELSE None]
    ELSE data

\* the keyword arguments from_json hands to the constructor
RowKwargs(data) ==
    ParseCreatedAt(RenameKey(RenameKey(data, "created_at", "createdAt"),
                             "created_by", "createdBy"))

\* Question.__init__ takes the 34 fields and no other keyword: cls(**data)
\* raises TypeError for a row with any other column
Convertible(data) == DOMAIN RowKwargs(data) \subseteq FieldNames

\* Question.from_json
from_json(data) ==
    IF Convertible(data) THEN Question(RowKwargs(data)) ELSE Raise("TypeError")

\* the rows a response is made of: two that convert (one with a timestamp
\* that does not parse), and two with a column the constructor does not
\* know
RowPool ==
    {[id |-> PyInt(1), question |-> Str(<<"E", "d">>), topic |-> PyInt(7),
      created_at |-> StrLit("2024-05-01T10:00:00Z"),
      created_by |-> StrLit("tutor")],
     [id |-> PyInt(2), question |-> Str(<<"d", "e">>), category |-> PyInt(4),
      createdAt |-> StrLit("yesterday")],
     [id |-> PyInt(3), question |-> Str(<<"e">>), topic |-> PyInt(7),
      number |-> PyInt(12)],
     [id |-> PyInt(4), updated_at |-> StrLit("2024-05-01T10:00:00Z")]}

\* what execute() gives: it raises, or a response whose data is None or a
\* list of rows
DbResponses ==
    {Raise("APIError")} \cup
    {[py |-> "response", data |-> d] :
        d \in {None} \cup
              {[py |-> "list", items |-> rows] :
                  rows \in UNION {[1..n -> RowPool] : n \in 0..MaxRows}}}

FetchInit ==
    /\ fetch_pc = "query"
    /\ fetch_op = None
    /\ db_response \in DbResponses
    /\ fetch_result = None
    /\ NzIdle
    /\ CapIdle
    /\ PipeIdle

\* data = response.data or []
ResponseRows(response) ==
    IF response.data = None THEN <<>> ELSE response.data.items

\* the conversion loop of fetch_questions, lines 90 to 99: a row that does
\* not convert is reported and left out
ConvertEach(data) ==
    LET good == SelectSeq(data, Convertible)
    IN  [py |-> "list", items |-> [i \in 1..Len(good) |-> from_json(good[i])]]

\* [Question.from_json(q) for q in data] inside the try of the fetch: one
\* row that does not convert raises out of the comprehension, and the
\* handler raises Exception
ConvertAll(data) ==
    IF \A i \in 1..Len(data) : Convertible(data[i])
    THEN [py |-> "list", items |-> [i \in 1..Len(data) |-> from_json(data[i])]]
    ELSE Raise("Exception")

\* Repository.fetch_questions
fetch_questions ==
    /\ fetch_pc = "query"
    /\ fetch_op' = StrLit("fetch_questions")
    /\ fetch_result' =
           IF Raised(db_response) THEN Raise("Exception")
           ELSE ConvertEach(ResponseRows(db_response))
    /\ fetch_pc' = "done"
    /\ UNCHANGED <<db_response, nz_vars, cap_vars, pipe_vars>>

\* Repository.fetch_all_questions
fetch_all_questions ==
    /\ fetch_pc = "query"
    /\ fetch_op' = StrLit("fetch_all_questions")
    /\ fetch_result' =
           IF Raised(db_response) THEN Raise("Exception")
           ELSE ConvertAll(ResponseRows(db_response))
    /\ fetch_pc' = "done"
    /\ UNCHANGED <<db_response, nz_vars, cap_vars, pipe_vars>>

\* Repository.fetch_questions_by_topic
fetch_questions_by_topic ==
    /\ fetch_pc = "query"
    /\ fetch_op' = StrLit("fetch_questions_by_topic")
    /\ fetch_result' =
           IF Raised(db_response) THEN Raise("Exception")
           ELSE ConvertAll(ResponseRows(db_response))
    /\ fetch_pc' = "done"
    /\ UNCHANGED <<db_response, nz_vars, cap_vars, pipe_vars>>

\* Repository.fetch_questions_by_category
fetch_questions_by_category ==
    /\ fetch_pc = "query"
    /\ fetch_op' = StrLit("fetch_questions_by_category")
    /\ fetch_result' =
           IF Raised(db_response) THEN Raise("Exception")
           ELSE ConvertAll(ResponseRows(db_response))
    /\ fetch_pc' = "done"
    /\ UNCHANGED <<db_response, nz_vars, cap_vars, pipe_vars>>

FetchNext ==
    \/ fetch_questions
    \/ fetch_all_questions
    \/ fetch_questions_by_topic
    \/ fetch_questions_by_category

SpecFetch == FetchInit /\ [][FetchNext]_vars

\* C18: whichever fetch operation ran on a response with rows, it returned
\* the Questions of the rows that convert, in the order of the rows, and
\* left out the rows that do not.
C18_FetchSkipsBadRows ==
    (fetch_pc = "done" /\ ~Raised(db_response)) =>
        fetch_result = ConvertEach(ResponseRows(db_response))

-----------------------------------------------------------------------------
(* create_embedding *)

\* a record that can be embedded: answered by its third answer, embedded
\* once before, with fields that differ from the defaults
ValidQuestion ==
    Question([id |-> PyInt(1), question |-> Str(<<"E", "d">>),
              answer1 |-> Str(<<"d">>), answer2 |-> Str(<<"e">>),
              answer3 |-> Str(<<"d", "e">>), answer4 |-> Str(<<"e", "e">>),
              solution |-> PyInt(3), tip |-> Str(<<"d", "d">>),
              topic |-> PyInt(7), category |-> PyInt(4),
              publised |-> PyBool(FALSE), vector |-> Vector(1),
              llm_model |-> StrLit("gpt"), embedding_model |-> StrLit("old")])

\* the records a batch is made of: one that can be embedded, one for each
\* way of failing the validation, and None for a hole in the list
RecordPool ==
    {ValidQuestion,
     [ValidQuestion EXCEPT !.id = PyInt(2), !.question = None],
     [ValidQuestion EXCEPT !.id = PyInt(3), !.solution = None],
     [ValidQuestion EXCEPT !.id = PyInt(4), !.solution = PyInt(0)],
     [ValidQuestion EXCEPT !.id = PyInt(5), !.solution = PyInt(4)],
     [ValidQuestion EXCEPT !.id = PyInt(6), !.solution = PyInt(-1)],
     [ValidQuestion EXCEPT !.id = PyInt(7), !.answer2 = None],
     [ValidQuestion EXCEPT !.id = PyInt(8), !.question = Str(<<" ">>),
                           !.answer3 = Str(<<>>)],
     [ValidQuestion EXCEPT !.id = PyInt(9), !.question = Str(<<"d", "e">>),
                           !.answer3 = Str(<<"e">>)],
     None}

Batches == UNION {[1..n -> RecordPool] : n \in 0..MaxRecords}

PipeInit ==
    /\ pc = "start"
    /\ question_list \in Batches
    /\ model \in EmbeddingModel
    /\ open_ai = "unset"
    /\ idx = 0
    /\ cost = 0
    /\ new_question_list = <<>>
    /\ skipped_questions = 0
    /\ result = None
    /\ provider_calls = <<>>
    /\ embedded_from = <<>>
    /\ NzIdle
    /\ CapIdle
    /\ FetchIdle

\* the record the loop takes next
question == question_list[idx + 1]

InLoop == pc = "loop" /\ idx < Len(question_list)

\* cost = embedding_cost: the total is overwritten
AddCost_Overwrite(total, embedding_cost) == embedding_cost

\* cost += embedding_cost
AddCost(total, embedding_cost) == total + embedding_cost

\* the validation without the check of the cleaned text
Validate_NoCleanCheck(q) ==
    IF q.question = None THEN "no_question"
    ELSE IF q.solution = None THEN "no_solution"
    ELSE IF ~(1 <= q.solution.n /\ q.solution.n <= 4) THEN "invalid_solution"
    ELSE IF \E answer \in {q.answer1, q.answer2, q.answer3} : answer = None
         THEN "missing_answer"
    ELSE IF Raised(get_text_to_embedding(q)) THEN "error"
    ELSE IF \/ ~Truthy(get_text_to_embedding(q))
            \/ Strip(get_text_to_embedding(q).s) = <<>>
         THEN "empty_text"
    ELSE "embed"

\* the validation of lines 195 to 232, in the order of the code: the reason
\* for which the record is skipped, or "embed"
Validate(q) ==
    IF q.question = None THEN "no_question"
    ELSE IF q.solution = None THEN "no_solution"
    ELSE IF ~(1 <= q.solution.n /\ q.solution.n <= 4) THEN "invalid_solution"
    ELSE IF \E answer \in {q.answer1, q.answer2, q.answer3} : answer = None
         THEN "missing_answer"
    ELSE IF Raised(get_text_to_embedding(q)) THEN "error"
    ELSE IF \/ ~Truthy(get_text_to_embedding(q))
            \/ Strip(get_text_to_embedding(q).s) = <<>>
         THEN "empty_text"
    ELSE IF \/ ~Truthy(clean_text(get_text_to_embedding(q)))
            \/ Strip(clean_text(get_text_to_embedding(q)).s) = <<>>
         THEN "empty_clean"
    ELSE "embed"

\* lines 178 to 186, the provider is constructed
SetupOk ==
    /\ pc = "start"
    /\ \E api_key \in ApiKeys, connection \in {None, Raise("APIError")} :
          OpenAIRepositoryInit(api_key, connection) = None
    /\ open_ai' = "constructed"
    /\ pc' = "loop"
    /\ cost' = 0
    /\ new_question_list' = <<>>
    /\ skipped_questions' = 0
    /\ UNCHANGED <<question_list, model, idx, result, provider_calls,
                   embedded_from, nz_vars, cap_vars,
                   fetch_vars>>

\* the constructor raises and the error is only reported: the loop starts
SetupFail_Continues ==
    /\ pc = "start"
    /\ \E api_key \in ApiKeys, connection \in {None, Raise("APIError")} :
          Raised(OpenAIRepositoryInit(api_key, connection))
    /\ open_ai' = "failed"
    /\ pc' = "loop"
    /\ UNCHANGED <<question_list, model, idx, cost, new_question_list,
                   skipped_questions, result, provider_calls, embedded_from,
                   nz_vars, cap_vars,
                   fetch_vars>>

\* lines 178 to 183 and 272 to 283: the constructor raises, the outer handler
\* reports and raises again
SetupFail ==
    /\ pc = "start"
    /\ \E api_key \in ApiKeys, connection \in {None, Raise("APIError")} :
          /\ Raised(OpenAIRepositoryInit(api_key, connection))
          /\ result' = OpenAIRepositoryInit(api_key, connection)
    /\ open_ai' = "failed"
    /\ pc' = "raised"
    /\ UNCHANGED <<question_list, model, idx, cost, new_question_list,
                   skipped_questions, provider_calls, embedded_from, nz_vars, cap_vars,
                   fetch_vars>>

\* line 191 outside the per-record try: an element without id (None) raises
\* AttributeError, which the outer handler raises again
ElementError ==
    /\ InLoop
    /\ question = None
    /\ idx' = idx + 1
    /\ result' = Raise("AttributeError")
    /\ pc' = "raised"
    /\ UNCHANGED <<question_list, model, open_ai, cost, new_question_list,
                   skipped_questions, provider_calls, embedded_from, nz_vars, cap_vars,
                   fetch_vars>>

\* lines 195 to 198: no question text
SkipNoQuestion ==
    /\ InLoop
    /\ question # None
    /\ Validate(question) = "no_question"
    /\ idx' = idx + 1
    /\ skipped_questions' = skipped_questions + 1
    /\ UNCHANGED <<pc, question_list, model, open_ai, cost, new_question_list,
                   result, provider_calls, embedded_from, nz_vars, cap_vars,
                   fetch_vars>>

\* lines 200 to 203: no solution
SkipNoSolution ==
    /\ InLoop
    /\ question # None
    /\ Validate(question) = "no_solution"
    /\ idx' = idx + 1
    /\ skipped_questions' = skipped_questions + 1
    /\ UNCHANGED <<pc, question_list, model, open_ai, cost, new_question_list,
                   result, provider_calls, embedded_from, nz_vars, cap_vars,
                   fetch_vars>>

\* lines 205 to 208: solution outside 1..4
SkipInvalidSolution ==
    /\ InLoop
    /\ question # None
    /\ Validate(question) = "invalid_solution"
    /\ idx' = idx + 1
    /\ skipped_questions' = skipped_questions + 1
    /\ UNCHANGED <<pc, question_list, model, open_ai, cost, new_question_list,
                   result, provider_calls, embedded_from, nz_vars, cap_vars,
                   fetch_vars>>

\* lines 211 to 215: one of the three answers is None
SkipMissingAnswer ==
    /\ InLoop
    /\ question # None
    /\ Validate(question) = "missing_answer"
    /\ idx' = idx + 1
    /\ skipped_questions' = skipped_questions + 1
    /\ UNCHANGED <<pc, question_list, model, open_ai, cost, new_question_list,
                   result, provider_calls, embedded_from, nz_vars, cap_vars,
                   fetch_vars>>

\* line 218 raises (the solution indexes outside the three answers), the
\* per-record handler of lines 253 to 257 counts a skip
SkipTextError ==
    /\ InLoop
    /\ question # None
    /\ Validate(question) = "error"
    /\ idx' = idx + 1
    /\ skipped_questions' = skipped_questions + 1
    /\ UNCHANGED <<pc, question_list, model, open_ai, cost, new_question_list,
                   result, provider_calls, embedded_from, nz_vars, cap_vars,
                   fetch_vars>>

\* lines 221 to 224: empty source text
SkipEmptyText ==
    /\ InLoop
    /\ question # None
    /\ Validate(question) = "empty_text"
    /\ idx' = idx + 1
    /\ skipped_questions' = skipped_questions + 1
    /\ UNCHANGED <<pc, question_list, model, open_ai, cost, new_question_list,
                   result, provider_calls, embedded_from, nz_vars, cap_vars,
                   fetch_vars>>

\* lines 226 to 232: empty text after cleaning
SkipEmptyClean ==
    /\ InLoop
    /\ question # None
    /\ Validate(question) = "empty_clean"
    /\ idx' = idx + 1
    /\ skipped_questions' = skipped_questions + 1
    /\ UNCHANGED <<pc, question_list, model, open_ai, cost, new_question_list,
                   result, provider_calls, embedded_from, nz_vars, cap_vars,
                   fetch_vars>>

\* the provider call raises and nothing catches it per record: the outer
\* handler raises again
ProviderRaises_Aborts ==
    /\ InLoop
    /\ question # None
    /\ Validate(question) = "embed"
    /\ \E response \in ApiResponses, token_count \in TokenCounts :
          LET text == clean_text(get_text_to_embedding(question))
              emb == get_embedding_with_cost(response, token_count, model)
          IN  /\ Raised(emb)
              /\ provider_calls' = Append(provider_calls,
                     [idx |-> idx + 1, text |-> text, outcome |-> emb])
              /\ result' = emb
    /\ idx' = idx + 1
    /\ pc' = "raised"
    /\ UNCHANGED <<question_list, model, open_ai, cost, new_question_list,
                   skipped_questions, embedded_from, nz_vars, cap_vars,
                   fetch_vars>>

\* lines 239 and 253 to 257: the provider call raises, the per-record handler
\* counts a skip
ProviderRaises ==
    /\ InLoop
    /\ question # None
    /\ Validate(question) = "embed"
    /\ \E response \in ApiResponses, token_count \in TokenCounts :
          LET text == clean_text(get_text_to_embedding(question))
              emb == get_embedding_with_cost(response, token_count, model)
          IN  /\ Raised(emb)
              /\ provider_calls' = Append(provider_calls,
                     [idx |-> idx + 1, text |-> text, outcome |-> emb])
    /\ idx' = idx + 1
    /\ skipped_questions' = skipped_questions + 1
    /\ UNCHANGED <<pc, question_list, model, open_ai, cost, new_question_list,
                   result, embedded_from, nz_vars, cap_vars,
                   fetch_vars>>

\* lines 239 to 251: the provider call returns, the cost is added, the copy
\* is appended; len(embedding) of line 250 raises TypeError when the
\* embedding is None, which the per-record handler counts as a skip
ProviderReturns ==
    /\ InLoop
    /\ question # None
    /\ Validate(question) = "embed"
    /\ \E response \in ApiResponses, token_count \in TokenCounts :
          LET text == clean_text(get_text_to_embedding(question))
              emb == get_embedding_with_cost(response, token_count, model)
              embedding_cost == emb.items[2]
              embedding == emb.items[1]
          IN  /\ ~Raised(emb)
              /\ provider_calls' = Append(provider_calls,
                     [idx |-> idx + 1, text |-> text, outcome |-> emb])
              /\ cost' = AddCost(cost, embedding_cost)
              /\ new_question_list' = Append(new_question_list,
                     copy_with(question,
                         [vector |-> embedding,
                          embedding_model |-> model.model_name]))
              /\ embedded_from' = Append(embedded_from, idx + 1)
              /\ skipped_questions' =
                     IF embedding.py = "list" THEN skipped_questions
                     ELSE skipped_questions + 1
    /\ idx' = idx + 1
    /\ UNCHANGED <<pc, question_list, model, open_ai, result, nz_vars, cap_vars,
                   fetch_vars>>

\* lines 259 to 270, and 272 to 283 when the success rate divides by zero
Summary ==
    /\ pc = "loop"
    /\ idx = Len(question_list)
    /\ IF Len(question_list) = 0
       THEN /\ result' = Raise("ZeroDivisionError")
            /\ pc' = "raised"
       ELSE /\ result' = [py |-> "list", items |-> new_question_list]
            /\ pc' = "returned"
    /\ UNCHANGED <<question_list, model, open_ai, idx, cost, new_question_list,
                   skipped_questions, provider_calls, embedded_from, nz_vars, cap_vars,
                   fetch_vars>>

Next ==
    \/ SetupOk
    \/ SetupFail
    \/ ElementError
    \/ SkipNoQuestion
    \/ SkipNoSolution
    \/ SkipInvalidSolution
    \/ SkipMissingAnswer
    \/ SkipTextError
    \/ SkipEmptyText
    \/ SkipEmptyClean
    \/ ProviderRaises
    \/ ProviderReturns
    \/ Summary

Spec == PipeInit /\ [][Next]_vars

-----------------------------------------------------------------------------
(* Properties of create_embedding *)

\* the provider calls that returned, in the order they were made
SucceededCalls == SelectSeq(provider_calls, LAMBDA c : ~Raised(c.outcome))

\* the provider call made for the record at position i
CallAt(i) == CHOOSE c \in {provider_calls[k] : k \in 1..Len(provider_calls)} :
                 c.idx = i

RECURSIVE SumCosts(_)
\* the sum of the costs the provider returned for the positions in the list
SumCosts(positions) ==
    IF positions = <<>> THEN 0
    ELSE CallAt(Head(positions)).outcome.items[2] + SumCosts(Tail(positions))

\* a step in which the provider was called and raised
ProviderRaisedStep ==
    /\ Len(provider_calls') = Len(provider_calls) + 1
    /\ Raised(provider_calls'[Len(provider_calls')].outcome)

\* C1: a provider call that raises does not abort the batch: the step that
\* sees it leaves the call in the loop with nothing raised and the embedded
\* list as it was, a call that returns has taken every record, and the
\* embedded records are at all times exactly the records whose provider call
\* returned, in input order.
C1_ProviderFailureDoesNotAbort ==
    /\ [][ProviderRaisedStep =>
            /\ pc' = "loop"
            /\ result' = None
            /\ idx' = idx + 1
            /\ new_question_list' = new_question_list]_vars
    /\ [](/\ Len(new_question_list) = Len(SucceededCalls)
          /\ \A k \in 1..Len(SucceededCalls) :
                /\ embedded_from[k] = SucceededCalls[k].idx
                /\ new_question_list[k].id =
                       question_list[SucceededCalls[k].idx].id
          /\ pc = "returned" =>
                /\ idx = Len(question_list)
                /\ result.items = new_question_list)

\* the scenario of C1: the provider raises on record 1 of 2, the result is
\* record 2 alone and the total is its cost
C1_Witness ==
    /\ pc = "returned"
    /\ Len(question_list) = 2
    /\ Len(provider_calls) = 2
    /\ provider_calls[1].idx = 1 /\ Raised(provider_calls[1].outcome)
    /\ provider_calls[2].idx = 2 /\ ~Raised(provider_calls[2].outcome)
    /\ Len(result.items) = 1
    /\ embedded_from = <<2>>
    /\ result.items[1].id = question_list[2].id
    /\ cost = provider_calls[2].outcome.items[2]

\* the record at position i has a solution that is a number outside {1,2,3}
SolutionOutOfRange(i) ==
    /\ question_list[i] # None
    /\ question_list[i].solution # None
    /\ question_list[i].solution.n \notin {1, 2, 3}

\* C2: a record whose solution is outside {1,2,3} is skipped: the step that
\* takes it adds one to the skip counter, appends nothing to the embedded
\* list and makes no provider call; no provider call and no embedded record
\* ever belongs to such a record.
C2_OutOfRangeSolutionSkipped ==
    /\ [][(InLoop /\ SolutionOutOfRange(idx + 1) /\ idx' = idx + 1) =>
            /\ skipped_questions' = skipped_questions + 1
            /\ new_question_list' = new_question_list
            /\ provider_calls' = provider_calls
            /\ cost' = cost
            /\ pc' = "loop"]_vars
    /\ [](/\ \A k \in 1..Len(provider_calls) :
                ~SolutionOutOfRange(provider_calls[k].idx)
          /\ \A k \in 1..Len(embedded_from) :
                ~SolutionOutOfRange(embedded_from[k]))

\* a batch with the solutions 4, 0 and -1 has been run: three skips, no call
C2_Witness ==
    /\ pc = "returned"
    /\ Len(question_list) = 3
    /\ question_list[1] # None /\ question_list[1].solution = PyInt(4)
    /\ question_list[2] # None /\ question_list[2].solution = PyInt(0)
    /\ question_list[3] # None /\ question_list[3].solution = PyInt(-1)
    /\ skipped_questions = 3
    /\ provider_calls = <<>>
    /\ result.items = <<>>

\* C3: the accumulated cost is the sum of the costs the provider returned
\* for the records of the embedded list; a skipped or failed record adds
\* nothing.
C3_CostIsSumOfEmbedded ==
    /\ cost = SumCosts(embedded_from)
    /\ Len(embedded_from) = Len(new_question_list)

\* a batch returned with two records embedded, one provider failure before
\* them, and a total that is the two returned costs
C3_Witness ==
    /\ pc = "returned"
    /\ Len(new_question_list) = 2
    /\ Len(provider_calls) = 3
    /\ Raised(provider_calls[1].outcome)
    /\ skipped_questions >= 1
    /\ cost = provider_calls[2].outcome.items[2]
              + provider_calls[3].outcome.items[2]
    /\ cost > 0

\* the validation as the claim lists it: question text present, solution
\* present and in range, first three answers present, non-empty source text,
\* non-empty normalized text
PassesValidation(q) ==
    /\ q # None
    /\ q.question # None
    /\ q.solution # None
    /\ q.solution.n \in {1, 2, 3}
    /\ q.answer1 # None /\ q.answer2 # None /\ q.answer3 # None
    /\ LET answer == <<q.answer1, q.answer2, q.answer3>>[q.solution.n]
           source == Strip(q.question.s \o <<" ">> \o answer.s)
       IN  /\ source # <<>>
           /\ clean_text(Str(source)).s # <<>>

\* the positions up to n of the records that pass the validation, ascending
ValidPositions(n) ==
    SelectSeq([i \in 1..n |-> i], LAMBDA i : PassesValidation(question_list[i]))

\* C4: the provider invocations made so far are, in order, the records taken
\* so far that pass every validation step, once each; a call that returns
\* has taken every record.
C4_InvocationsAreValidRecordsInOrder ==
    /\ [i \in 1..Len(provider_calls) |-> provider_calls[i].idx]
           = ValidPositions(idx)
    /\ pc = "returned" => idx = Len(question_list)

\* the scenario of C4: three records, the second without question text
C4_Witness ==
    /\ pc = "returned"
    /\ Len(question_list) = 3
    /\ question_list[2] # None /\ question_list[2].question = None
    /\ PassesValidation(question_list[1])
    /\ PassesValidation(question_list[3])
    /\ Len(provider_calls) = 2
    /\ Len(new_question_list) = 2
    /\ skipped_questions = 1

\* C8: every record of the embedded list has a vector whose length is the
\* dimensions of the model, whatever the provider returned.
C8_VectorLengthIsModelDimensions ==
    \A k \in 1..Len(new_question_list) :
        /\ new_question_list[k].vector.py = "list"
        /\ new_question_list[k].vector.len = model.dimensions

\* C9: the input records are never changed, and every embedded record is the
\* input record it was made from with the vector the provider returned and
\* the name of the model, every other field as in the input.
C9_CopyKeepsOtherFields ==
    /\ [][question_list' = question_list]_vars
    /\ [](\A k \in 1..Len(new_question_list) :
            /\ new_question_list[k].vector =
                   CallAt(embedded_from[k]).outcome.items[1]
            /\ new_question_list[k].embedding_model = model.model_name
            /\ \A f \in FieldNames \ {"vector", "embedding_model"} :
                   new_question_list[k][f] = question_list[embedded_from[k]][f])

\* a record with a tip, a topic, an old vector and an old model name has been
\* embedded
C9_Witness ==
    /\ pc = "returned"
    /\ Len(result.items) >= 1
    /\ question_list[embedded_from[1]] = ValidQuestion
    /\ result.items[1].tip = Str(<<"d", "d">>)
    /\ result.items[1].vector # ValidQuestion.vector
    /\ result.items[1].embedding_model = model.model_name

\* C10: when the provider cannot be constructed the call has raised that
\* error, with no record taken, no provider call made and nothing returned;
\* records are only taken with a constructed provider.
C10_SetupFailureIsAtomic ==
    /\ open_ai = "failed" =>
          /\ pc = "raised"
          /\ Raised(result)
          /\ idx = 0
          /\ provider_calls = <<>>
          /\ new_question_list = <<>>
          /\ skipped_questions = 0
    /\ (idx > 0 \/ pc \in {"loop", "returned"}) => open_ai = "constructed"

\* the constructor raised ValueError on a batch that had records to embed
C10_Witness ==
    /\ open_ai = "failed"
    /\ result = Raise("ValueError")
    /\ Len(question_list) >= 1
    /\ PassesValidation(question_list[1])

\* the number of records among the first n that the validation of lines 195
\* to 232 skips
ValidationSkips(n) ==
    Cardinality({i \in 1..n : /\ question_list[i] # None
                              /\ Validate(question_list[i]) # "embed"})

\* C11: a provider failure is counted apart from a validation skip: the skip
\* counter is the number of records the validation skipped, and the provider
\* failures are not in it.
C11_ProviderFailuresCountedApart ==
    pc \in {"loop", "returned"} => skipped_questions = ValidationSkips(idx)

\* C12: when every record has been taken and none was embedded, the summary
\* is computed and the call returns the empty list; this covers the batch
\* whose records were all skipped and the empty batch.
C12_SummaryWithNothingEmbedded ==
    [][(/\ pc = "loop"
        /\ idx = Len(question_list)
        /\ new_question_list = <<>>
        /\ pc' # "loop")
       => /\ pc' = "returned"
          /\ result' = [py |-> "list", items |-> <<>>]]_vars

\* C17: an error raised while one record is handled, a list element that is
\* None included, is caught per record: the step that takes the record leaves
\* the call in the loop with nothing raised, and a record that is not
\* embedded adds one to the skip counter.
C17_RecordErrorsAreCaught ==
    [][(InLoop /\ idx' = idx + 1)
       => /\ pc' = "loop"
          /\ result' = None
          /\ new_question_list' = new_question_list
                => skipped_questions' = skipped_questions + 1]_vars

\* C19: every record taken so far is counted once, in the embedded list or
\* in the skip counter, and never in both: the two add up to the number of
\* records taken, and to the length of the input when the call returns.
C19_EmbeddedPlusSkippedIsTaken ==
    /\ pc \in {"loop", "returned"} =>
          Len(new_question_list) + skipped_questions = idx
    /\ pc = "returned" =>
          Len(result.items) + skipped_questions = Len(question_list)

-----------------------------------------------------------------------------
(* Properties of clean_text *)

\* C5: clean_text is idempotent: cleaning its own output changes nothing.
C5_Idempotent == nz_pc = "twice" => nz_twice = nz_once

\* C13: for an empty input (None, the empty string) and for an input that
\* is not a string, clean_text returns the empty string.
C13_EmptyOrNonStringGivesEmpty ==
    (nz_pc = "once" /\ (nz_text.py # "str" \/ ~Truthy(nz_text)))
        => nz_once = Str(<<>>)

\* C14: every character of the text clean_text returns for a string is a
\* word character, a space or one of the eleven marks . , ; : ! ? inverted-!
\* inverted-? apostrophe dquote hyphen; a symbol such as $ is not among them.
C14_OnlyWordCharsAndElevenMarks ==
    (nz_pc = "once" /\ nz_text.py = "str") =>
        \A i \in 1..Len(nz_once.s) :
            \/ IsWordChar(nz_once.s[i])
            \/ IsSpace(nz_once.s[i])
            \/ CodePoint(nz_once.s[i]) \in
                   {46, 44, 59, 58, 33, 63, 161, 191, 39, 34, 45}

\* a text that is one word of letters, one of them with an acute accent
AccentedWord(t) ==
    /\ t # <<>>
    /\ \A i \in 1..Len(t) : t[i] \in {"d", "e", "E", "e_acute"}
    /\ \E i \in 1..Len(t) : t[i] = "e_acute"

\* C15: a word with an accented letter that the token filter does not drop
\* (measured on its composed and on its decomposed form) comes out as one
\* token, lowered, with the accented letter composed.
C15_AccentedWordKept ==
    (/\ nz_pc = "once"
     /\ nz_text.py = "str"
     /\ AccentedWord(nz_text.s)
     /\ KeepWord(Lower(nz_text.s))
     /\ KeepWord(Lower(NFD(nz_text.s))))
        => nz_once = Str(NFC(Lower(NFD(nz_text.s))))

\* C16: a text with en dashes or em dashes is cleaned to the same result as
\* the text written with a hyphen-minus in the place of every dash.
C16_DashVariantsBecomeHyphen ==
    (nz_pc = "once" /\ nz_text.py = "str") =>
        nz_once = clean_text(Str(
            [i \in 1..Len(nz_text.s) |->
                IF nz_text.s[i] = "en_dash" THEN "-" ELSE nz_text.s[i]]))

\* C6: no word of the text clean_text returns is a stopword, shorter than 2
\* characters or longer than 50.
C6_OutputTokensPassFilter ==
    nz_pc = "once" =>
        \A i \in 1..Len(Split(nz_once.s)) :
            LET token == Split(nz_once.s)[i]
            IN  /\ token \notin AllStopwords
                /\ Len(token) >= 2
                /\ Len(token) <= 50

\* C7: when more than 5000 words survive the filter, the cap leaves exactly
\* the first 5000 of them in their order; otherwise it removes none.
C7_CapKeepsFirst5000 ==
    [][(cap_pc = "filtered" /\ cap_pc' = "capped") =>
          IF Len(cleaned_words) > 5000
          THEN /\ Len(cleaned_words') = 5000
               /\ \A i \in 1..5000 : cleaned_words'[i] = cleaned_words[i]
          ELSE cleaned_words' = cleaned_words]_vars

\* a list that lost words to the filter and then to the cap
C7_Witness ==
    /\ cap_pc = "capped"
    /\ truncated
    /\ Len(cleaned_words) = 5000
    /\ Len(words) >= 2 * 5000
    /\ cleaned_words[5000] # Lower(words[5000])

====
